---- MODULE Spec2Model ----
(***************************************************************************)
(* const-tweaker (src/src/lib.rs): the two global DashMaps __F64S and      *)
(* __BOOLS, the accessor generated by tweak! (get: lookup, then insert of  *)
(* the default on a miss), the web service started by run() and its three  *)
(* routes (main_site, handle_set_f64, handle_set_bool).                    *)
(*                                                                         *)
(* Values are opaque scalars: an f64 or bool is written as the string of   *)
(* its literal ("9.8", "true"), so that a JSON token and a stored value    *)
(* can be compared.  Option<T> is a sequence: <<>> is None, <<v>> Some(v). *)
(***************************************************************************)
EXTENDS Naturals, Sequences, FiniteSets, Bags

\* ------------------------------------------------------------------ bounds
NumThreads == 2      \* application threads, each reading one constant once
NumRequests == 1     \* POST requests the web service receives

Threads == 1..NumThreads
Reqs == 1..NumRequests

\* ------------------------------------------------------------- vocabulary
Types == {"f64", "bool"}
Keys == {"a", "b"}
None == <<>>
Some(v) == <<v>>

\* The tweak! declarations of the host crate.  The key is file!() "::" name
\* (line 69), so a name declared in two scopes of one file, or with two
\* types, is the same key: twice in __F64S with different defaults here,
\* once in __BOOLS.
Handles ==
    { [typ |-> "f64",  key |-> "a", default |-> "9.8"],
      [typ |-> "f64",  key |-> "a", default |-> "0.0"],
      [typ |-> "f64",  key |-> "b", default |-> "9.8"],
      [typ |-> "bool", key |-> "a", default |-> "false"] }

\* JSON bodies a client may post: no body at all, or {"key": k, "value": x}
\* with x a number or a boolean token.
Missing == [key |-> "", value |-> ""]
Body(k, x) == [key |-> k, value |-> x]

\* The POST requests a client sends: the path, as segments after the
\* leading "/", and the body.
Posts ==
    { [path |-> <<"set", "f64">>,   body |-> Body("a", "3.0")],
      [path |-> <<"set", "f64">>,   body |-> Body("b", "3.0")],
      [path |-> <<"set", "f64">>,   body |-> Body("a", "true")],
      [path |-> <<"set", "bool">>,  body |-> Body("a", "true")],
      [path |-> <<"set", "bool">>,  body |-> Missing],
      [path |-> <<"set", "float">>, body |-> Body("a", "3.0")] }

\* Where the two keys can hash to: the same shard, or two shards that an
\* iterator visits in either order.
Layouts ==
    { [k \in Keys |-> 1],
      [k \in Keys |-> IF k = "a" THEN 1 ELSE 2],
      [k \in Keys |-> IF k = "a" THEN 2 ELSE 1] }

VARIABLES
    F64S, BOOLS,        \* the DashMaps: key -> Option<value>
    shardOf,            \* the shard each key hashes to
    pc, cur,            \* application threads: position in get, its handle
    ret,                \* the latest get to return: its handle and value
    how,                \* the way a thread inside get is reading its handle
    observed,           \* the latest read to complete: what its caller got
    listener, runResult,\* the server thread and what run() returned
    proc,               \* the host process: "running" or "aborted"
    rpc, req, handler, status, \* POST requests
    gpc, gshard, page,  \* the GET / request: position, shard guarded, rows
    seedWrites, lastSet, lastWriter, dropped, \* history of the writes
    firstDefault, mixed, overlap              \* history of the calls

maps == <<F64S, BOOLS>>
threadVars == <<pc, cur, ret, how, observed>>
serverVars == <<listener, runResult>>
reqVars == <<rpc, req, handler, status>>
renderVars == <<gpc, gshard, page>>
histVars == <<seedWrites, lastSet, lastWriter, dropped, firstDefault, mixed, overlap>>
vars == <<maps, shardOf, threadVars, serverVars, proc, reqVars, renderVars, histVars>>

\* ------------------------------------------------------------ the DashMaps
MapOf(typ) == IF typ = "f64" THEN F64S ELSE BOOLS

\* DashMap::get (DashGetMiss: a lookup that never finds the key).
DashGetMiss(map, k) == None
DashGet(map, k) == map[k]

\* DashMap::insert: stores v, replacing any value the key had
\* (DashInsertDropped: an insert that stores nothing).
DashInsertDropped(map, k, v) == map
DashInsert(map, k, v) == [map EXCEPT ![k] = Some(v)]

\* DashMap::alter: applies f to the value if the key is present, and does
\* nothing otherwise; the handlers pass |_, _| value (DashAlterUpsert: an
\* alter that creates the entry; DashAlterNoop: one that never writes;
\* DashAlterRemoves: one that takes the entry out of the map).
DashAlterUpsert(map, k, v) == [map EXCEPT ![k] = Some(v)]
DashAlterRemoves(map, k, v) == [map EXCEPT ![k] = None]
DashAlterNoop(map, k, v) == map
DashAlter(map, k, v) ==
    IF map[k] # None THEN [map EXCEPT ![k] = Some(v)] ELSE map

\* A write to key k of map typ waits while a render iterates over k's shard
\* (the iterator holds the shard's read guard).
\* (GuardHeldLeaked: the iterator over __F64S never drops a guard it took.)
GuardHeldLeaked(typ, k) ==
    \/ gpc = (IF typ = "f64" THEN "f64s" ELSE "bools") /\ gshard = shardOf[k]
    \/ typ = "f64" /\ gpc \in {"bools", "done"}
GuardHeld(typ, k) ==
    /\ gpc = (IF typ = "f64" THEN "f64s" ELSE "bools")
    /\ gshard = shardOf[k]

\* A write goes to the map of its type only: the f64 arm of tweak! and
\* handle_set_f64 name __F64S, the bool arm and handle_set_bool __BOOLS
\* (StoreMapShared: one map behind both names).
StoreMapShared(typ, new) ==
    /\ F64S' = new
    /\ BOOLS' = new
StoreMap(typ, new) ==
    /\ F64S' = (IF typ = "f64" THEN new ELSE F64S)
    /\ BOOLS' = (IF typ = "bool" THEN new ELSE BOOLS)

Alive == proc = "running"

EmptyMap == [k \in Keys |-> None]
PerEntry(x) == [t \in Types |-> [k \in Keys |-> x]]

\* The state of a fresh process: both maps empty (DashMap::new()), no call
\* and no request made; the server thread in state l, run() having
\* returned r.
InitWith(l, r) ==
    /\ F64S = EmptyMap
    /\ BOOLS = EmptyMap
    /\ shardOf \in Layouts
    /\ pc = [t \in Threads |-> "idle"]
    /\ cur = [t \in Threads |-> None]
    /\ ret = None
    /\ how = [t \in Threads |-> "none"]
    /\ observed = None
    /\ listener = l
    /\ runResult = r
    /\ proc = "running"
    /\ rpc = [q \in Reqs |-> "new"]
    /\ req = [q \in Reqs |-> None]
    /\ handler = [q \in Reqs |-> "none"]
    /\ status = [q \in Reqs |-> 0]
    /\ gpc = "new"
    /\ gshard = 0
    /\ page = EmptyBag
    /\ seedWrites = PerEntry(0)
    /\ lastSet = PerEntry(None)
    /\ lastWriter = PerEntry("none")
    /\ dropped = PerEntry(FALSE)
    /\ firstDefault = PerEntry(None)
    /\ mixed = PerEntry(FALSE)
    /\ overlap = PerEntry(FALSE)

\* Before run() is called.
Init == InitWith("off", "none")

\* ------------------------------------------------------------ tweak!::get
\* History kept when a call on handle h starts: the default of the first
\* call on the entry, whether a later call came with another default, and
\* whether two calls on the entry ever overlapped.
NoteStart(t, h) ==
    /\ firstDefault' =
         IF firstDefault[h.typ][h.key] = None
         THEN [firstDefault EXCEPT ![h.typ][h.key] = Some(h.default)]
         ELSE firstDefault
    /\ mixed' =
         IF firstDefault[h.typ][h.key] \notin {None, Some(h.default)}
         THEN [mixed EXCEPT ![h.typ][h.key] = TRUE]
         ELSE mixed
    /\ overlap' =
         IF \E u \in Threads \ {t} :
                pc[u] = "insert" /\ cur[u][1].typ = h.typ /\ cur[u][1].key = h.key
         THEN [overlap EXCEPT ![h.typ][h.key] = TRUE]
         ELSE overlap

Returns(h, v) == [handle |-> h, value |-> v]

\* The ways of reading a handle: calling get, formatting it with {:?} or {}
\* (Debug::fmt, Display::fmt), dereferencing it (Deref::deref).
Accesses == {"get", "Debug", "Display", "Deref"}

\* What a read is served by: fmt and deref all call self.get() (lines 86,
\* 91, 101).  (ThroughDefault: fmt and deref take $default_value and leave
\* the map alone.)
ThroughDefault(a) == IF a = "get" THEN "get" ELSE "default"
Through(a) == "get"

\* write!(f, "{:?}", value): the text written for a value, in Display::fmt
\* as in Debug::fmt.
fmt(v) == [text |-> v]

\* The values of a type.
ValuesOf(typ) == IF typ = "f64" THEN {"3.0", "9.8", "0.0"} ELSE {"true", "false"}

\* What the caller of a read gets when get() returned v: v itself, its
\* text, or for deref a &'static T made by transmute from a reference to
\* the temporary get() returned, which is gone when deref returns: reading
\* through it yields whatever value of T the slot then holds.
Observe(a, typ, v) ==
    IF a = "get" THEN {v}
    ELSE IF a = "Deref" THEN ValuesOf(typ)
    ELSE {fmt(v)}

Observed(a, h, out) == [how |-> a, handle |-> h, out |-> out]

\* A read of handle h in way a.  `match $map.get(key)`: Some(value) =>
\* *value returns the stored value; None leaves the thread about to insert
\* the default.  Threads that have not called yet are interchangeable, so
\* they start in index order.
Access(t, h, a) ==
    /\ Alive
    /\ pc[t] = "idle"
    /\ \A u \in Threads : u < t => pc[u] # "idle"
    /\ NoteStart(t, h)
    /\ IF Through(a) = "get"
       THEN LET found == DashGet(MapOf(h.typ), h.key) IN
              IF found # None
              THEN /\ ret' = Some(Returns(h, found[1]))
                   /\ \E out \in Observe(a, h.typ, found[1]) :
                         observed' = Some(Observed(a, h, out))
                   /\ pc' = [pc EXCEPT ![t] = "done"]
                   /\ cur' = cur
                   /\ how' = how
              ELSE /\ pc' = [pc EXCEPT ![t] = "insert"]
                   /\ cur' = [cur EXCEPT ![t] = Some(h)]
                   /\ how' = [how EXCEPT ![t] = a]
                   /\ ret' = ret
                   /\ observed' = observed
       ELSE /\ \E out \in Observe(a, h.typ, h.default) :
                  observed' = Some(Observed(a, h, out))
            /\ pc' = [pc EXCEPT ![t] = "done"]
            /\ cur' = cur
            /\ how' = how
            /\ ret' = ret
    /\ UNCHANGED <<maps, shardOf, serverVars, proc, reqVars, renderVars,
                   seedWrites, lastSet, lastWriter, dropped>>

\* A call of get on handle h.
GetLookup(t, h) == Access(t, h, "get")

\* `$map.insert(key, value); value` with value = $default_value.
GetInsert(t) ==
    /\ Alive
    /\ pc[t] = "insert"
    /\ ~GuardHeld(cur[t][1].typ, cur[t][1].key)
    /\ LET h == cur[t][1] IN
         /\ StoreMap(h.typ, DashInsert(MapOf(h.typ), h.key, h.default))
         /\ ret' = Some(Returns(h, h.default))
         /\ \E out \in Observe(how[t], h.typ, h.default) :
               observed' = Some(Observed(how[t], h, out))
         /\ seedWrites' = [seedWrites EXCEPT ![h.typ][h.key] = @ + 1]
         /\ lastWriter' = [lastWriter EXCEPT ![h.typ][h.key] = "get"]
    /\ pc' = [pc EXCEPT ![t] = "done"]
    /\ cur' = [cur EXCEPT ![t] = None]
    /\ how' = [how EXCEPT ![t] = "none"]
    /\ UNCHANGED <<shardOf, serverVars, proc, reqVars, renderVars,
                   lastSet, dropped, firstDefault, mixed, overlap>>

\* ------------------------------------------------------------------ run()
\* run() spawns the server thread and returns Ok(()) at once (lines 130-141).
Run ==
    /\ Alive
    /\ listener = "off"
    /\ listener' = "starting"
    /\ runResult' = "Ok"
    /\ UNCHANGED <<maps, shardOf, threadVars, proc, reqVars, renderVars, histVars>>

\* app.listen("127.0.0.1:9938") binds the address and serves.
ListenOk ==
    /\ Alive
    /\ listener = "starting"
    /\ listener' = "listening"
    /\ UNCHANGED <<maps, shardOf, threadVars, runResult, proc, reqVars,
                   renderVars, histVars>>

\* The address is in use: listen returns Err and .expect("Running web
\* server failed") panics in the spawned thread, which ends that thread
\* (ListenFailWipes: a failure that takes the registry with it).
ListenFailWipes ==
    /\ Alive
    /\ listener = "starting"
    /\ listener' = "failed"
    /\ F64S' = EmptyMap
    /\ BOOLS' = EmptyMap
    /\ UNCHANGED <<shardOf, threadVars, runResult, proc, reqVars,
                   renderVars, histVars>>
ListenFail ==
    /\ Alive
    /\ listener = "starting"
    /\ listener' = "failed"
    /\ UNCHANGED <<maps, shardOf, threadVars, runResult, proc, reqVars,
                   renderVars, histVars>>

\* ------------------------------------------------------------- the routes
\* app.at("/").get(main_site); app.at("/set/f64").post(handle_set_f64);
\* app.at("/set/bool").post(handle_set_bool).  Any other request matches no
\* route (RouteFloat: the float handler registered at /set/float).
RouteFloat(method, path) ==
    IF method = "GET" /\ path = <<>> THEN "main_site"
    ELSE IF method = "POST" /\ path = <<"set", "float">> THEN "handle_set_f64"
    ELSE IF method = "POST" /\ path = <<"set", "bool">> THEN "handle_set_bool"
    ELSE "none"
Route(method, path) ==
    IF method = "GET" /\ path = <<>> THEN "main_site"
    ELSE IF method = "POST" /\ path = <<"set", "f64">> THEN "handle_set_f64"
    ELSE IF method = "POST" /\ path = <<"set", "bool">> THEN "handle_set_bool"
    ELSE "none"

HandlerType(h) == IF h = "handle_set_f64" THEN "f64" ELSE "bool"

\* request.body_json::<PostData<T>>(): Ok only for a body that has a string
\* key and a value token of type T.
IsF64(tok) == tok \in {"3.0", "9.8", "0.0"}
IsBool(tok) == tok \in {"true", "false"}
\* (BodyJsonLax: a decoder that takes any value token for T.)
BodyJsonLax(typ, body) == IF body = Missing THEN None ELSE Some(body)
BodyJson(typ, body) ==
    IF body = Missing THEN None
    ELSE IF typ = "f64" /\ IsF64(body.value) THEN Some(body)
    ELSE IF typ = "bool" /\ IsBool(body.value) THEN Some(body)
    ELSE None

\* The listener accepts a POST and dispatches it; a request that matches
\* no route is answered 404.  Requests not yet sent are interchangeable, so
\* they arrive in index order.
Receive(r, post) ==
    /\ Alive
    /\ listener = "listening"
    /\ rpc[r] = "new"
    /\ \A q \in Reqs : q < r => rpc[q] # "new"
    /\ req' = [req EXCEPT ![r] = IF Route("POST", post.path) = "none" THEN None ELSE Some(post)]
    /\ handler' = [handler EXCEPT ![r] = Route("POST", post.path)]
    /\ IF Route("POST", post.path) = "none"
       THEN /\ rpc' = [rpc EXCEPT ![r] = "done"]
            /\ status' = [status EXCEPT ![r] = 404]
       ELSE /\ rpc' = [rpc EXCEPT ![r] = "body"]
            /\ status' = status
    /\ UNCHANGED <<maps, shardOf, threadVars, serverVars, proc, renderVars,
                   histVars>>

\* handle_set_f64 / handle_set_bool with a body that does not decode:
\* .expect("Could not decode JSON") panics inside the handler.  No response
\* is written; the panic ends the connection's task, or the whole process
\* where the executor or the build aborts on a panic.
SetPanic(r) ==
    /\ Alive
    /\ rpc[r] = "body"
    /\ BodyJson(HandlerType(handler[r]), req[r][1].body) = None
    /\ rpc' = [rpc EXCEPT ![r] = "panicked"]
    /\ req' = [req EXCEPT ![r] = None]
    /\ proc' \in {"running", "aborted"}
    /\ UNCHANGED <<maps, shardOf, threadVars, serverVars, handler, status,
                   renderVars, histVars>>

\* The response of a set handler after the alter: Response::new(200),
\* whether the alter found the key or not (SetResponseOnHit: 404 for a key
\* that has no entry).
SetResponseOnHit(hit) == IF hit THEN 200 ELSE 404
SetResponse(hit) == 200

\* handle_set_f64 / handle_set_bool with a body that decodes:
\* map.alter(key, |_, _| value), then Response::new(200).
SetAlter(r) ==
    /\ Alive
    /\ rpc[r] = "body"
    /\ BodyJson(HandlerType(handler[r]), req[r][1].body) # None
    /\ LET typ == HandlerType(handler[r])
           post_data == BodyJson(typ, req[r][1].body)[1]
           hit == MapOf(typ)[post_data.key] # None
       IN
         /\ ~GuardHeld(typ, post_data.key)
         /\ StoreMap(typ, DashAlter(MapOf(typ), post_data.key, post_data.value))
         /\ lastSet' = IF hit
                       THEN [lastSet EXCEPT ![typ][post_data.key] = Some(post_data.value)]
                       ELSE lastSet
         /\ lastWriter' = IF hit
                          THEN [lastWriter EXCEPT ![typ][post_data.key] = "set"]
                          ELSE lastWriter
         /\ dropped' = IF firstDefault[typ][post_data.key] = None
                       THEN [dropped EXCEPT ![typ][post_data.key] = TRUE]
                       ELSE dropped
         /\ status' = [status EXCEPT ![r] = SetResponse(hit)]
    /\ rpc' = [rpc EXCEPT ![r] = "done"]
    /\ req' = [req EXCEPT ![r] = None]
    /\ UNCHANGED <<shardOf, threadVars, serverVars, proc, handler,
                   renderVars, seedWrites, firstDefault, mixed, overlap>>

\* ------------------------------------------------------------ the page
\* send(): the javascript call a control makes, as its three arguments.
send(key, look_for, data_type) ==
    [key |-> key, look_for |-> look_for, data_type |-> data_type]

\* bool::to_string
to_string(v) == v

\* One row of f64s(): the tag, a range input and the label (lines 169-189).
F64Row(k, v) ==
    [ kind |-> "range", tag |-> k, id |-> k, value |-> v,
      script |-> send(k, "Number(this.value)", "f64"),
      label_id |-> <<k, "_label">>, label |-> v ]

\* One row of bools(): the tag, a checkbox and the label (lines 198-213).
BoolRow(k, v) ==
    [ kind |-> "checkbox", tag |-> k, id |-> k, value |-> to_string(v),
      script |-> send(k, "this.checked", "bool"),
      label_id |-> <<k, "_label">>, label |-> to_string(v) ]

Row(typ, k, v) == IF typ = "f64" THEN F64Row(k, v) ELSE BoolRow(k, v)

\* The rows an iterator yields while it holds the guard of shard s: one per
\* entry of the shard, each read once through its RefMulti.
\* (ShardRowsAll: an iterator that yields the whole map at every shard;
\* ShardRowsDefaultLabel: rows whose label is not read from the entry but
\* shows a compiled-in default of the key.)
ShardRowsDefaultLabel(typ, s) ==
    { [Row(typ, k, MapOf(typ)[k][1]) EXCEPT
          !.label = CHOOSE d \in { h.default : h \in { x \in Handles : x.typ = typ /\ x.key = k } } : TRUE] :
        k \in { x \in Keys : shardOf[x] = s /\ MapOf(typ)[x] # None } }
ShardRowsAll(typ, s) ==
    { Row(typ, k, MapOf(typ)[k][1]) : k \in { x \in Keys : MapOf(typ)[x] # None } }
ShardRows(typ, s) ==
    { Row(typ, k, MapOf(typ)[k][1]) :
        k \in { x \in Keys : shardOf[x] = s /\ MapOf(typ)[x] # None } }

LastShard == Cardinality(Keys)

\* The listener accepts GET / and dispatches it to main_site; format!
\* renders the body, f64s() first: __F64S.iter() takes the read guard of the
\* first shard and yields that shard's entries.
\* (RenderReceiveSeeds: a render that reads through an inserting accessor
\* and so seeds the float keys that have no entry.)
RenderReceiveSeeds ==
    /\ Alive
    /\ listener = "listening"
    /\ gpc = "new"
    /\ Route("GET", <<>>) = "main_site"
    /\ gpc' = "f64s"
    /\ gshard' = 1
    /\ page' = SetToBag(ShardRows("f64", 1))
    /\ F64S' = [k \in Keys |-> IF F64S[k] = None THEN Some("0.0") ELSE F64S[k]]
    /\ BOOLS' = BOOLS
    /\ UNCHANGED <<shardOf, threadVars, serverVars, proc, reqVars, histVars>>
RenderReceive ==
    /\ Alive
    /\ listener = "listening"
    /\ gpc = "new"
    /\ Route("GET", <<>>) = "main_site"
    /\ gpc' = "f64s"
    /\ gshard' = 1
    /\ page' = SetToBag(ShardRows("f64", 1))
    /\ UNCHANGED <<maps, shardOf, threadVars, serverVars, proc, reqVars, histVars>>

\* The iterator moves on: it drops the guard it holds and takes the read
\* guard of the next shard, yielding that shard's entries; past the last
\* shard of __F64S the render goes on with bools() and the first shard of
\* __BOOLS, and past the last shard of __BOOLS the response is complete.
RenderAdvance ==
    /\ Alive
    /\ gpc \in {"f64s", "bools"}
    /\ IF gshard < LastShard
       THEN /\ gshard' = gshard + 1
            /\ page' = page (+) SetToBag(ShardRows(IF gpc = "f64s" THEN "f64" ELSE "bool",
                                                   gshard + 1))
            /\ gpc' = gpc
       ELSE IF gpc = "f64s"
       THEN /\ gshard' = 1
            /\ page' = page (+) SetToBag(ShardRows("bool", 1))
            /\ gpc' = "bools"
       ELSE /\ gshard' = 0
            /\ page' = page
            /\ gpc' = "done"
    /\ UNCHANGED <<maps, shardOf, threadVars, serverVars, proc, reqVars, histVars>>

Next ==
    \/ \E t \in Threads, h \in Handles : GetLookup(t, h)
    \/ \E t \in Threads : GetInsert(t)
    \/ Run
    \/ ListenOk
    \/ ListenFail
    \/ \E r \in Reqs, post \in Posts : Receive(r, post)
    \/ \E r \in Reqs : SetPanic(r)
    \/ \E r \in Reqs : SetAlter(r)

Spec == Init /\ [][Next]_vars

\* The service once it listens, serving the page as well, with clients
\* whose bodies are well formed: a number for a float path, a boolean for
\* the boolean path.
WellFormedPosts ==
    { post \in Posts :
        /\ post.body # Missing
        /\ IsBool(post.body.value) = (post.path = <<"set", "bool">>) }

\* After run() and a successful listen.
InitPage == InitWith("listening", "Ok")

\* One declaration for each entry: the application threads of the service
\* read three constants, two floats and a boolean.
PageHandles == { h \in Handles : h.default # "0.0" }

NextPage ==
    \/ \E t \in Threads, h \in PageHandles : GetLookup(t, h)
    \/ \E t \in Threads : GetInsert(t)
    \/ \E r \in Reqs, post \in WellFormedPosts : Receive(r, post)
    \/ \E r \in Reqs : SetAlter(r)
    \/ RenderReceive
    \/ RenderAdvance

SpecPage == InitPage /\ [][NextPage]_vars

\* The listening service with well-formed clients, and application threads
\* that read, in any of the four ways, one declaration of each type.
FmtHandles == { h \in Handles : h.key = "a" /\ h.default # "0.0" }

NextFmt ==
    \/ \E t \in Threads, h \in FmtHandles, a \in Accesses : Access(t, h, a)
    \/ \E t \in Threads : GetInsert(t)
    \/ \E r \in Reqs, post \in WellFormedPosts : Receive(r, post)
    \/ \E r \in Reqs : SetAlter(r)

SpecFmt == InitPage /\ [][NextFmt]_vars

\* The listening service under fair scheduling: threads get one
\* declaration of each type, clients set those keys, and the page is served.  A
\* thread inside get, a handler holding a decoded request and the render
\* are each run again by the scheduler (the OS for threads, the executor
\* for the server's tasks) for as long as they can take their next step; a
\* writer can take its step once the shard's guard is free.
LivePosts == { post \in WellFormedPosts : \E h \in FmtHandles : post.body.key = h.key }

NextLive ==
    \/ \E t \in Threads, h \in FmtHandles : GetLookup(t, h)
    \/ \E t \in Threads : GetInsert(t)
    \/ \E r \in Reqs, post \in LivePosts : Receive(r, post)
    \/ \E r \in Reqs : SetAlter(r)
    \/ RenderReceive
    \/ RenderAdvance

Fairness ==
    /\ \A t \in Threads : WF_vars(GetInsert(t))
    /\ \A r \in Reqs : WF_vars(SetAlter(r))
    /\ WF_vars(RenderAdvance)

SpecLive == InitPage /\ [][NextLive]_vars /\ Fairness


\* ================================================================ claims
Entries == Types \X Keys
MapOfNext(typ) == IF typ = "f64" THEN F64S' ELSE BOOLS'
Pending(t, typ, k) ==
    pc[t] = "insert" /\ cur[t][1].typ = typ /\ cur[t][1].key = k
\* The latest get to return was a call on entry <<typ, k>>.
RetOn(typ, k) ==
    ret # None /\ ret[1].handle.typ = typ /\ ret[1].handle.key = k
DefaultsOf(typ, k) == { h.default : h \in { x \in Handles : x.typ = typ /\ x.key = k } }

\* C1: once a set has overwritten the entry of a key, the stored value of
\* the key is the value of the latest such set: nothing but a later set
\* replaces it, in particular not the default-seeding insert of a get that
\* looked the key up before the set.
C1_NoLostUpdate ==
    \A e \in Entries :
        lastSet[e[1]][e[2]] # None => MapOf(e[1])[e[2]] = lastSet[e[1]][e[2]]

\* C2: the default-seeding insert of a key of a type map is performed at
\* most once over the whole run.
C2_SingleSeedWrite ==
    \A e \in Entries : seedWrites[e[1]][e[2]] <= 1

\* C3: while no set has overwritten the entry and every call on the key
\* came with the same default d, the entry is absent or holds d, a call on
\* the key that has returned returned d, and once no call on the key is
\* still in progress the entry holds d; this for any interleaving of the
\* calls, racing first calls included.
C3_ConcurrentFirstCalls ==
    \A e \in Entries :
        LET typ == e[1]
            k == e[2]
        IN (firstDefault[typ][k] # None /\ lastSet[typ][k] = None /\ ~mixed[typ][k])
           => /\ MapOf(typ)[k] \in {None, firstDefault[typ][k]}
              /\ RetOn(typ, k) => ret[1].value = firstDefault[typ][k][1]
              /\ (\A t \in Threads : ~Pending(t, typ, k))
                    => MapOf(typ)[k] = firstDefault[typ][k]

\* C3 witness: two first calls on one key with one default raced (both
\* missed, both inserted), both are over and no set took effect.
C3_Witness ==
    \E e \in Entries :
        /\ overlap[e[1]][e[2]] /\ ~mixed[e[1]][e[2]]
        /\ seedWrites[e[1]][e[2]] = 2
        /\ lastSet[e[1]][e[2]] = None
        /\ \A t \in Threads : pc[t] # "insert"
        /\ RetOn(e[1], e[2])

\* C4: while the calls on a key have not overlapped and no set has
\* overwritten its entry, every call on the key returns the default of the
\* first call, whatever default it came with, and the entry holds that
\* first default once the first call is over.
C4_DefaultOnFirstTouchOnly ==
    \A e \in Entries :
        LET typ == e[1]
            k == e[2]
        IN (firstDefault[typ][k] # None /\ lastSet[typ][k] = None /\ ~overlap[typ][k])
           => /\ MapOf(typ)[k] \in {None, firstDefault[typ][k]}
              /\ RetOn(typ, k) => ret[1].value = firstDefault[typ][k][1]
              /\ (\A t \in Threads : ~Pending(t, typ, k))
                    => MapOf(typ)[k] = firstDefault[typ][k]

\* C4 witness: a call with default d2 followed, without overlap, a call with
\* default d1 # d2 on the same key and returned d1.
C4_Witness ==
    \E e \in Entries :
        /\ mixed[e[1]][e[2]] /\ ~overlap[e[1]][e[2]]
        /\ lastSet[e[1]][e[2]] = None
        /\ RetOn(e[1], e[2])
        /\ ret[1].handle.default # firstDefault[e[1]][e[2]][1]
        /\ ret[1].value = firstDefault[e[1]][e[2]][1]
        /\ MapOf(e[1])[e[2]] = firstDefault[e[1]][e[2]]

\* C5: a set handled while its key has no entry changes neither map; and as
\* long as no set has found an entry of a key, a get on the key returns one
\* of the key's compiled-in defaults, never a posted value.
C5_SetOnUnseededIsNoop ==
    [][ /\ \A r \in Reqs :
              (SetAlter(r) /\ MapOf(HandlerType(handler[r]))[req[r][1].body.key] = None)
                 => (F64S' = F64S /\ BOOLS' = BOOLS)
        /\ \A e \in Entries :
              (lastSet'[e[1]][e[2]] = None /\ ret' # None
                 /\ ret'[1].handle.typ = e[1] /\ ret'[1].handle.key = e[2])
                 => ret'[1].value \in DefaultsOf(e[1], e[2])
      ]_vars

\* C5 witness: a set arrived for a key no get had been called on, and a get
\* on that key has since seeded and returned its default.
C5_Witness ==
    \E e \in Entries :
        /\ dropped[e[1]][e[2]]
        /\ RetOn(e[1], e[2])
        /\ ret[1].value = ret[1].handle.default
        /\ MapOf(e[1])[e[2]] = Some(ret[1].handle.default)

\* C6: a set handled while its key has an entry stores the posted value, and
\* a get that starts while that set is the latest write to the key returns
\* the posted value, whatever its default.
C6_SetThenGet ==
    [][ /\ \A r \in Reqs :
              (SetAlter(r) /\ MapOf(HandlerType(handler[r]))[req[r][1].body.key] # None)
                 => MapOfNext(HandlerType(handler[r]))[req[r][1].body.key]
                       = Some(req[r][1].body.value)
        /\ \A t \in Threads, h \in Handles :
              (GetLookup(t, h) /\ lastWriter[h.typ][h.key] = "set")
                 => ret' = Some(Returns(h, lastSet[h.typ][h.key][1]))
      ]_vars

\* C6 witness: a get seeded the key, a set overwrote it, and a later get
\* returned the posted value, which is not its default.
C6_Witness ==
    \E e \in Entries :
        /\ seedWrites[e[1]][e[2]] >= 1
        /\ lastWriter[e[1]][e[2]] = "set"
        /\ RetOn(e[1], e[2])
        /\ ret[1].value = lastSet[e[1]][e[2]][1]
        /\ ret[1].value # ret[1].handle.default

\* C7: no set request ends in a fault of its handler, and the process keeps
\* running whatever body a request carries.
C7_MalformedBodyIsLocal ==
    /\ proc = "running"
    /\ \A r \in Reqs : rpc[r] # "panicked"

\* C8: when the listener fails to start, run() has returned an error.
C8_StartFailureIsReturned ==
    listener = "failed" => runResult = "Err"

\* C9: the step in which the listener fails to start changes neither map, and
\* after the failure the registry is as first touches leave it: an entry is
\* absent or holds a compiled-in default of its key, the first one if the
\* calls on the key did not overlap.
C9_StartFailureKeepsRegistry ==
    [][ /\ (listener = "starting" /\ listener' = "failed")
              => (F64S' = F64S /\ BOOLS' = BOOLS)
        /\ listener' = "failed" =>
              \A e \in Entries :
                 /\ MapOfNext(e[1])[e[2]] = None
                       \/ MapOfNext(e[1])[e[2]][1] \in DefaultsOf(e[1], e[2])
                 /\ ~overlap'[e[1]][e[2]]
                       => MapOfNext(e[1])[e[2]] \in {None, firstDefault'[e[1]][e[2]]}
      ]_vars

\* C9 witness: the listener failed to start while the registry holds an
\* entry seeded by a get that has returned.
C9_Witness ==
    /\ listener = "failed"
    /\ \E e \in Entries : MapOf(e[1])[e[2]] # None /\ RetOn(e[1], e[2])

\* C10 as stated: a well-formed POST to /set/float for a key seeded in the
\* float map is dispatched to the float set handler.
C10_FloatRouteIsSetFloat ==
    [][ \A r \in Reqs, post \in Posts :
           (Receive(r, post) /\ post.path = <<"set", "float">>
              /\ F64S[post.body.key] # None)
              => handler'[r] = "handle_set_f64" ]_vars

\* C10 amended: the float set route is POST /set/f64.  A POST to /set/f64 is
\* dispatched to handle_set_f64, which overwrites the float entry of a
\* seeded key; a POST to /set/float matches no route, is answered 404 and
\* changes no map; and every slider of the page calls send with the data
\* type "f64", the last segment of the float route.
C10_FloatRouteIsSetF64 ==
    [][ /\ \A r \in Reqs :
              (rpc[r] = "new" /\ rpc'[r] # "new") =>
                 \A post \in Posts :
                    Receive(r, post) =>
                       /\ post.path = <<"set", "f64">>
                             => handler'[r] = "handle_set_f64"
                       /\ post.path = <<"set", "float">>
                             => /\ status'[r] = 404 /\ rpc'[r] = "done"
                                /\ F64S' = F64S /\ BOOLS' = BOOLS
        /\ \A r \in Reqs :
              (rpc[r] = "body" /\ rpc'[r] = "done" /\ handler[r] = "handle_set_f64"
                 /\ F64S[req[r][1].body.key] # None)
                 => F64S'[req[r][1].body.key] = Some(req[r][1].body.value)
        /\ page' # page =>
              \A row \in BagToSet(page') :
                 row.kind = "range"
                    => Route("POST", <<"set", row.script.data_type>>) = "handle_set_f64"
      ]_vars

\* C10 witness: a POST to the float route overwrote a seeded float entry and
\* the page shows a slider for that key.
C10_Witness ==
    \E k \in Keys :
        /\ lastSet["f64"][k] # None
        /\ \E row \in BagToSet(page) : row.kind = "range" /\ row.id = k
        /\ \E r \in Reqs : status[r] = 200

\* C11: a request on a set route whose body decodes ends with the response
\* 200, whether the key had an entry (the alter overwrote it) or had none
\* (the alter did nothing): the response does not depend on the hit.
C11_SetAlwaysAcknowledged ==
    [][ \A r \in Reqs :
          (rpc[r] = "body" /\ rpc'[r] # "body"
             /\ BodyJson(HandlerType(handler[r]), req[r][1].body) # None)
          => (rpc'[r] = "done" /\ status'[r] = 200 /\ handler'[r] = handler[r]) ]_vars

\* C11 witness: a set on a key that never had an entry was answered 200
\* and the key still has no entry.
C11_Witness ==
    \E r \in Reqs, k \in Keys :
        /\ rpc[r] = "done" /\ status[r] = 200
        /\ handler[r] \in {"handle_set_f64", "handle_set_bool"}
        /\ dropped[HandlerType(handler[r])][k]
        /\ MapOf(HandlerType(handler[r]))[k] = None

OtherType(typ) == IF typ = "f64" THEN "bool" ELSE "f64"

\* C12: the two type maps are separate namespaces.  The insert of a get on
\* a key of one type and the alter of a set on one type's route leave the
\* map of the other type as it was, its entry or absence of an entry for
\* the same key included; a lookup changes neither map; and __F64S only
\* ever holds numbers, __BOOLS only booleans.
C12_TypeMapsIndependent ==
    [][ /\ \A t \in Threads :
              /\ (pc[t] = "idle" /\ pc'[t] # "idle") => (F64S' = F64S /\ BOOLS' = BOOLS)
              /\ (pc[t] = "insert" /\ pc'[t] # "insert")
                   => MapOfNext(OtherType(cur[t][1].typ)) = MapOf(OtherType(cur[t][1].typ))
        /\ \A r \in Reqs :
              (rpc[r] = "body" /\ rpc'[r] = "done")
                => MapOfNext(OtherType(HandlerType(handler[r])))
                      = MapOf(OtherType(HandlerType(handler[r])))
        /\ \A k \in Keys :
              /\ F64S'[k] # None => IsF64(F64S'[k][1])
              /\ BOOLS'[k] # None => IsBool(BOOLS'[k][1]) ]_vars

\* C12 witness: one key string has an entry in both maps; a set has
\* overwritten the float entry and the boolean entry still holds its
\* default.
C12_Witness ==
    \E k \in Keys :
        /\ lastSet["f64"][k] # None /\ F64S[k] = lastSet["f64"][k]
        /\ BOOLS[k] # None /\ lastSet["bool"][k] = None
        /\ BOOLS[k][1] \in DefaultsOf("bool", k)

\* C13: entries are never deleted and exist exactly where a get has seeded
\* them.  A key that has an entry in a type map has one in every later
\* state, whatever get, set or render step is taken; an entry is there if
\* and only if the insert of a get has run on the key (a set creates none,
\* a render creates none); and a map holds one value per key.
C13_EntriesPersist ==
    [][ (F64S' # F64S \/ BOOLS' # BOOLS \/ seedWrites' # seedWrites) =>
          \A e \in Entries :
             /\ MapOf(e[1])[e[2]] # None => MapOfNext(e[1])[e[2]] # None
             /\ (MapOfNext(e[1])[e[2]] # None) = (seedWrites'[e[1]][e[2]] >= 1)
             /\ Len(MapOfNext(e[1])[e[2]]) <= 1 ]_vars

\* C13 witness: an entry that was seeded, overwritten by a set and read by
\* a completed render is still there.
C13_Witness ==
    \E e \in Entries :
        /\ MapOf(e[1])[e[2]] # None
        /\ lastSet[e[1]][e[2]] # None
        /\ gpc = "done"
        /\ \E row \in BagToSet(page) : row.id = e[2]

\* C14: serving GET / does not change the registry.  Every step of the
\* render (its dispatch, each move of the iterators, its completion) leaves
\* both maps as they were: the same keys present, the same values stored,
\* and no entry created for a key that was never read.
C14_RenderLeavesRegistry ==
    [][ (gpc' # gpc \/ gshard' # gshard \/ page' # page)
          => (F64S' = F64S /\ BOOLS' = BOOLS) ]_vars

\* C14 witness: a render has completed and shown a row, and a key that no
\* get has read still has no entry in either map.
C14_Witness ==
    /\ gpc = "done"
    /\ page # EmptyBag
    /\ \E k \in Keys :
          /\ F64S[k] = None /\ BOOLS[k] = None
          /\ firstDefault["f64"][k] = None /\ firstDefault["bool"][k] = None

KindOf(typ) == IF typ = "f64" THEN "range" ELSE "checkbox"
\* The number of rows of a kind that a page has for a key.
RowCount(B, kind, k) ==
    LET rows == { x \in BagToSet(B) : x.kind = kind /\ x.id = k }
    IN IF rows = {} THEN 0 ELSE BagCardinality([x \in rows |-> B[x]])

\* C15: the page has exactly one row per entry, read when the iterator
\* holds the entry's shard.  A render step that takes the guard of shard s
\* of a type map adds, for every key of that shard that has an entry then,
\* one row of the map's kind (a slider for a float, a checkbox for a
\* boolean) tagged with the key and showing the value stored then, and adds
\* nothing else; the completing step adds nothing.  So a page never has two
\* rows of a kind for one key, has rows only for keys that have an entry,
\* and the page of an empty registry has no row.
C15_OneRowPerEntry ==
    [][ (gpc' # gpc \/ gshard' # gshard \/ page' # page) =>
          /\ IF gpc' = "done" THEN page' = page
             ELSE LET typ == IF gpc' = "f64s" THEN "f64" ELSE "bool" IN
                  \A e \in Entries :
                     IF e[1] = typ /\ shardOf[e[2]] = gshard' /\ MapOf(typ)[e[2]] # None
                     THEN /\ RowCount(page', KindOf(e[1]), e[2])
                               = RowCount(page, KindOf(e[1]), e[2]) + 1
                          /\ \E row \in BagToSet(page') :
                                /\ row.kind = KindOf(typ)
                                /\ row.tag = e[2] /\ row.id = e[2]
                                /\ row.value = MapOf(typ)[e[2]][1]
                                /\ row.label = MapOf(typ)[e[2]][1]
                     ELSE RowCount(page', KindOf(e[1]), e[2])
                               = RowCount(page, KindOf(e[1]), e[2])
          /\ \A e \in Entries :
                /\ RowCount(page', KindOf(e[1]), e[2]) <= 1
                /\ RowCount(page', KindOf(e[1]), e[2]) = 1 => MapOfNext(e[1])[e[2]] # None
          /\ \A row \in BagToSet(page') : row.kind \in {"range", "checkbox"} /\ row.id \in Keys
          /\ (F64S' = EmptyMap /\ BOOLS' = EmptyMap) => page' = EmptyBag ]_vars

\* C15 witness: one float entry and one boolean entry were seeded and the
\* completed page has exactly one slider and one checkbox, each with its
\* key and its stored value.
C15_Witness ==
    /\ gpc = "done"
    /\ BagCardinality(page) = 2
    /\ \E k1 \in Keys, k2 \in Keys :
          /\ \A k \in Keys : (F64S[k] # None) = (k = k1)
          /\ \A k \in Keys : (BOOLS[k] # None) = (k = k2)
          /\ RowCount(page, "range", k1) = 1
          /\ RowCount(page, "checkbox", k2) = 1
          /\ \E row \in BagToSet(page) :
                row.kind = "range" /\ row.tag = k1 /\ row.value = F64S[k1][1]
          /\ \E row \in BagToSet(page) :
                row.kind = "checkbox" /\ row.tag = k2 /\ row.value = BOOLS[k2][1]

\* The values of type typ that a client can post for key k on the route of
\* that type.
PostedValues(typ, k) ==
    { post.body.value :
        post \in { q \in Posts :
                     /\ q.path = <<"set", typ>>
                     /\ q.body # Missing
                     /\ q.body.key = k
                     /\ IF typ = "f64" THEN IsF64(q.body.value) ELSE IsBool(q.body.value) } }

\* C17: no value comes out of thin air.  The value stored for a key in a
\* type map is a default of a handle of that type bound to the key, or the
\* value of a set request for the key that the route of that type received
\* and applied before; and the value a get on the key returned is such a
\* default or, once a set on the key has been applied, a value posted for
\* the key on that route.
C17_NoValueFromThinAir ==
    \A e \in Entries :
        LET typ == e[1]
            k == e[2]
            applied == IF lastSet[typ][k] # None THEN PostedValues(typ, k) ELSE {}
        IN /\ MapOf(typ)[k] # None
                => \/ MapOf(typ)[k][1] \in DefaultsOf(typ, k)
                   \/ MapOf(typ)[k] = lastSet[typ][k] /\ MapOf(typ)[k][1] \in applied
           /\ RetOn(typ, k) => ret[1].value \in DefaultsOf(typ, k) \cup applied

\* C17 witness: an entry holds the value of a set, which is no default of
\* the key, and a get on the key has returned that value.
C17_Witness ==
    \E e \in Entries :
        /\ MapOf(e[1])[e[2]] # None
        /\ MapOf(e[1])[e[2]][1] \notin DefaultsOf(e[1], e[2])
        /\ MapOf(e[1])[e[2]][1] \in PostedValues(e[1], e[2])
        /\ RetOn(e[1], e[2]) /\ ret[1].value = MapOf(e[1])[e[2]][1]

TypeOfKind(kind) == IF kind = "range" THEN "f64" ELSE "bool"

C18_EveryReadTouches ==
    [][ /\ observed' # None =>
              LET o == observed'[1]
                  typ == o.handle.typ
                  k == o.handle.key
              IN /\ MapOfNext(typ)[k] # None
                 /\ ret' # None /\ ret'[1].handle = o.handle
                 /\ o.how \in {"Debug", "Display"} => o.out = fmt(ret'[1].value)
                 /\ (lastSet'[typ][k] = None /\ ~mixed'[typ][k])
                       => MapOfNext(typ)[k] = Some(o.handle.default)
        /\ \A r \in Reqs :
              (rpc[r] = "body" /\ rpc'[r] = "done" /\ observed # None
                 /\ observed[1].handle.typ = HandlerType(handler[r])
                 /\ observed[1].handle.key = req[r][1].body.key)
              => MapOfNext(HandlerType(handler[r]))[req[r][1].body.key]
                    = Some(req[r][1].body.value) ]_vars

\* C18 witness: the only read so far was a formatting or a deref of a
\* handle on an unseen key; it seeded the entry, and a set that followed
\* has replaced the default.
C18_Witness ==
    /\ pc[1] = "done"
    /\ \A t \in Threads \ {1} : pc[t] = "idle"
    /\ observed # None
    /\ observed[1].how \in {"Debug", "Display", "Deref"}
    /\ seedWrites[observed[1].handle.typ][observed[1].handle.key] = 1
    /\ lastSet[observed[1].handle.typ][observed[1].handle.key] # None
    /\ MapOf(observed[1].handle.typ)[observed[1].handle.key]
          = lastSet[observed[1].handle.typ][observed[1].handle.key]
    /\ MapOf(observed[1].handle.typ)[observed[1].handle.key]
          # Some(observed[1].handle.default)

\* An operation that has started and not completed: a get about to insert
\* its default, a set request inside its handler, a render under way.
InProgress ==
    \/ \E t \in Threads : pc[t] = "insert"
    \/ \E r \in Reqs : rpc[r] = "body"
    \/ gpc \in {"f64s", "bools"}

\* C16: no registry operation blocks for ever.  Under fair scheduling,
\* again and again no get, no set request and no render is in progress:
\* every one that started has completed (an operation in progress stays in
\* progress until it completes), whatever other gets, sets and render run
\* at the same time on the same or on other keys.
C16_NoOperationBlocks == []<>(~InProgress)

\* C16 witness: while the render holds the guard of a shard, a get is
\* waiting to insert into that shard and a set is waiting to alter an
\* entry of it.
C16_Witness ==
    /\ \E t \in Threads :
          pc[t] = "insert" /\ GuardHeld(cur[t][1].typ, cur[t][1].key)
    /\ \E r \in Reqs :
          /\ rpc[r] = "body"
          /\ GuardHeld(HandlerType(handler[r]), req[r][1].body.key)
====
